---- MODULE Spec2Model ----
(***************************************************************************)
(* Model of the coins crate: the Coin catalog and the combination engine   *)
(* of src/src/lib.rs and the HTTP handlers and router of src/src/web.rs.   *)
(*                                                                         *)
(* The crate keeps no state between calls.  The variables record what a    *)
(* caller observes: the values returned by the last calls of each library  *)
(* function, the last responses of the router, the locals of the two       *)
(* variety tests and the locals of the invocations running concurrently.   *)
(*                                                                         *)
(*   Spec         the library generators and the router, call by call      *)
(*   SpecTV       total_value applied to two arbitrary slices              *)
(*   SpecVariety  the loops of the two variety tests                       *)
(*   SpecConc     invocations interleaved step by step                     *)
(***************************************************************************)
EXTENDS Integers, Sequences, FiniteSets, TLC

VARIABLES
    combinations,   \* Option<Vec<Vec<Coin>>>: last value returned by generate_all_combinations
    prevCombinations, \* Option<Vec<Vec<Coin>>>: value returned by the call before the last
    random,         \* Option<Vec<Coin>>: last value returned by generate_random_combination
    drawn,          \* Option<i32>: what gen_range returned in that call
    argA,           \* first slice a caller hands to total_value
    argB,           \* second slice a caller hands to total_value
    valA,           \* Option<u32>: total_value(argA) once called
    valB,           \* Option<u32>: total_value(argB) once called
    valAB,          \* Option<u32>: total_value(argA ++ argB) once called
    response,       \* Option<(StatusCode, Json body)>: last response of the router
    calls,          \* the engine functions the handler of the last request called, in order
    allLog,         \* the bodies of the last two GET /all responses, oldest first
    trial,          \* the variety test running: "library", "endpoint" or "none"
    iter,           \* iterations of its loop completed
    draws,          \* the masks the generator returned in its iterations so far
    task,           \* the invocation each thread or request task is running, with its locals
    appState        \* the AppState value create_router wraps in an Arc

\* what the callers of the library observe
libVars == <<combinations, prevCombinations, random, drawn>>

\* the slices handed to total_value and its results
tvVars == <<argA, argB, valA, valB, valAB>>

\* what the clients of the router observe
webVars == <<response, calls, allLog>>

\* the locals of the variety tests
testVars == <<trial, iter, draws>>

\* the concurrent invocations and the state they are handed
concVars == <<task, appState>>

vars == <<libVars, tvVars, webVars, testVars, concVars>>

\* ------------------------------------------------------------------------
\* Bounds of the model
\* ------------------------------------------------------------------------

\* longest slice drawn for each of the two arguments of total_value
MaxLen == 2

\* number of threads or request tasks running invocations concurrently
NumTasks == 2

\* ------------------------------------------------------------------------
\* Option values
\* ------------------------------------------------------------------------

None == <<>>

Some(v) == <<v>>

IsSome(o) == Len(o) = 1

Unwrap(o) == o[1]

\* ------------------------------------------------------------------------
\* lib.rs: Coin catalog
\* ------------------------------------------------------------------------

\* enum Coin
Coin == {"Penny", "Nickel", "Dime", "Quarter"}

\* Coin::all(); the Rust array is indexed from 0, the sequence from 1
Coin_all == <<"Penny", "Nickel", "Dime", "Quarter">>

\* value_in_cents with the Nickel arm copied into the Dime arm
value_in_cents_dime5(coin) ==
    CASE coin = "Penny" -> 1
      [] coin = "Nickel" -> 5
      [] coin = "Dime" -> 5
      [] coin = "Quarter" -> 25

\* value_in_cents with the Nickel and Dime arms exchanged
value_in_cents_swapped(coin) ==
    CASE coin = "Penny" -> 1
      [] coin = "Nickel" -> 10
      [] coin = "Dime" -> 5
      [] coin = "Quarter" -> 25

\* Coin::value_in_cents
value_in_cents(coin) ==
    CASE coin = "Penny" -> 1
      [] coin = "Nickel" -> 5
      [] coin = "Dime" -> 10
      [] coin = "Quarter" -> 25

\* ------------------------------------------------------------------------
\* lib.rs: combination engine
\* ------------------------------------------------------------------------

\* coins.len()
total_coins == Len(Coin_all)

\* 1 << total_coins
total_combinations == 2 ^ total_coins

\* the bit test shifting by one position too many: (i >> (j + 1)) & 1 == 1
BitSet_shifted(i, j) == ((i \div (2 ^ (j + 1))) % 2) = 1

\* (i >> j) & 1 == 1
BitSet(i, j) == ((i \div (2 ^ j)) % 2) = 1

\* the inner loop stopping one coin early: for j in 0..total_coins - 1
RECURSIVE all_inner_loop_short(_, _, _)
all_inner_loop_short(i, j, combination) ==
    IF j >= total_coins - 1
    THEN combination
    ELSE all_inner_loop_short(i, j + 1,
             IF BitSet(i, j)
             THEN Append(combination, Coin_all[j + 1])
             ELSE combination)

\* the inner loop of generate_all_combinations: for j in 0..total_coins
RECURSIVE all_inner_loop(_, _, _)
all_inner_loop(i, j, combination) ==
    IF j >= total_coins
    THEN combination
    ELSE all_inner_loop(i, j + 1,
             IF BitSet(i, j)
             THEN Append(combination, Coin_all[j + 1])
             ELSE combination)

\* the outer loop stopping one mask early: for i in 0..total_combinations - 1
RECURSIVE all_outer_loop_short(_, _)
all_outer_loop_short(i, acc) ==
    IF i >= total_combinations - 1
    THEN acc
    ELSE all_outer_loop_short(i + 1, Append(acc, all_inner_loop(i, 0, <<>>)))

\* the outer loop of generate_all_combinations: for i in 0..total_combinations
RECURSIVE all_outer_loop(_, _)
all_outer_loop(i, acc) ==
    IF i >= total_combinations
    THEN acc
    ELSE all_outer_loop(i + 1, Append(acc, all_inner_loop(i, 0, <<>>)))

\* generate_all_combinations(); result[i + 1] is the Rust combinations[i]
generate_all_combinations == all_outer_loop(0, <<>>)

\* total_value counting each denomination once, however often it occurs
total_value_distinct(coins) ==
    LET present == {coins[k] : k \in DOMAIN coins}
    IN  (IF "Penny" \in present THEN value_in_cents("Penny") ELSE 0)
        + (IF "Nickel" \in present THEN value_in_cents("Nickel") ELSE 0)
        + (IF "Dime" \in present THEN value_in_cents("Dime") ELSE 0)
        + (IF "Quarter" \in present THEN value_in_cents("Quarter") ELSE 0)

\* total_value skipping a coin equal to the one that follows it
RECURSIVE total_value_dedup(_)
total_value_dedup(coins) ==
    IF coins = <<>>
    THEN 0
    ELSE IF Len(coins) > 1 /\ coins[1] = coins[2]
         THEN total_value_dedup(Tail(coins))
         ELSE value_in_cents(Head(coins)) + total_value_dedup(Tail(coins))

\* total_value leaving out the last coin of the slice
RECURSIVE total_value_skip_last(_)
total_value_skip_last(coins) ==
    IF Len(coins) <= 1
    THEN 0
    ELSE value_in_cents(Head(coins)) + total_value_skip_last(Tail(coins))

\* total_value: coins.iter().map(|coin| coin.value_in_cents() as u32).sum()
\* (the u32 sum cannot overflow on slices this short)
RECURSIVE total_value(_)
total_value(coins) ==
    IF coins = <<>>
    THEN 0
    ELSE value_in_cents(Head(coins)) + total_value(Tail(coins))

\* gen_range with an inclusive upper end: rng.gen_range(0..=total_combinations)
gen_range_inclusive == 0 .. total_combinations

\* the values rng.gen_range(0..total_combinations) can return
gen_range == 0 .. (total_combinations - 1)

\* the loop pushing an included coin twice
RECURSIVE random_loop_twice(_, _, _)
random_loop_twice(i, j, combination) ==
    IF j >= total_coins
    THEN combination
    ELSE random_loop_twice(i, j + 1,
             IF BitSet(i, j)
             THEN Append(Append(combination, Coin_all[j + 1]), Coin_all[j + 1])
             ELSE combination)

\* the loop of generate_random_combination: for j in 0..total_coins
RECURSIVE random_loop(_, _, _)
random_loop(i, j, combination) ==
    IF j >= total_coins
    THEN combination
    ELSE random_loop(i, j + 1,
             IF BitSet(i, j)
             THEN Append(combination, Coin_all[j + 1])
             ELSE combination)

\* generate_random_combination decoding the same mask whatever the generator returns
generate_random_combination_fixed(i) == random_loop(total_combinations - 1, 0, <<>>)

\* generate_random_combination() when the generator returns i
generate_random_combination(i) == random_loop(i, 0, <<>>)

\* ------------------------------------------------------------------------
\* web.rs: handlers
\* ------------------------------------------------------------------------

StatusOK == 200

StatusNotFound == 404

\* RandomResponse whose value is computed from another draw than its coins
RandomResponse_redraw(i) ==
    LET combination == generate_random_combination(i)
        value == total_value(generate_random_combination((i + 1) % total_combinations))
    IN  [coins |-> combination, value |-> value]

\* struct RandomResponse built by get_random_combination when the generator returns i
RandomResponse(i) ==
    LET combination == generate_random_combination(i)
        value == total_value(combination)
    IN  [coins |-> combination, value |-> value]

\* CombinationDetail numbering the entries from 1
CombinationDetail_from1(index, coins) ==
    [index |-> index + 1, coins |-> coins, value |-> total_value(coins)]

\* struct CombinationDetail built by the closure of get_all_combinations
CombinationDetail(index, coins) ==
    [index |-> index, coins |-> coins, value |-> total_value(coins)]

\* struct AllCombinationsResponse built by get_all_combinations
AllCombinationsResponse ==
    LET all_combinations == generate_all_combinations
        details == [k \in 1 .. Len(all_combinations) |->
                       CombinationDetail(k - 1, all_combinations[k])]
    IN  [total_combinations |-> Len(details), combinations |-> details]

\* struct HealthResponse built by health_check
HealthResponse ==
    [status |-> "healthy", service |-> "coins-api", version |-> "CARGO_PKG_VERSION"]

\* the json! value built by root
RootInfo ==
    [service |-> "Coin Combinations API",
     version |-> "CARGO_PKG_VERSION",
     endpoints |-> {"/", "/health", "/random", "/all"}]

\* create_router without the .route("/all", ...) line
Routes_without_all == {"/", "/health", "/random"}

\* the paths create_router registers
Routes == {"/", "/health", "/random", "/all"}

\* the request paths tried
Paths == {"/", "/health", "/random", "/all", "/invalid", "/unknown"}

\* the engine functions root calls
RootCalls == <<>>

\* the engine functions health_check calls
HealthCalls == <<>>

\* the engine functions get_random_combination calls
RandomCalls == <<"generate_random_combination", "total_value">>

\* get_all_combinations enumerating a second time to fill total_combinations
AllCalls_recount ==
    <<"generate_all_combinations">>
        \o [k \in 1 .. Len(generate_all_combinations) |-> "total_value"]
        \o <<"generate_all_combinations">>

\* the engine functions get_all_combinations calls: the enumeration, then
\* total_value once per combination inside the map closure
AllCalls ==
    <<"generate_all_combinations">>
        \o [k \in 1 .. Len(generate_all_combinations) |-> "total_value"]

\* the two most recent entries of a log after body is added
Recent(log, body) ==
    IF Len(log) < 2 THEN Append(log, body) ELSE <<log[2], body>>

\* ------------------------------------------------------------------------
\* Initial states
\* ------------------------------------------------------------------------

\* the threads or request tasks
Tasks == 1 .. NumTasks

\* AppState {}: a struct without fields
AppState == <<>>

\* a task that runs no invocation
Idle ==
    [op |-> "idle", pc |-> "idle", i |-> 0, coins |-> <<>>, acc |-> <<>>,
     sum |-> 0, result |-> None]

\* the slices concurrent callers hand to total_value
ConcSlices ==
    {<<>>, <<"Nickel", "Nickel">>, <<"Quarter", "Dime", "Nickel", "Penny">>}

\* all Coin slices of length at most n
CoinSeqs(n) == UNION {[1 .. k -> Coin] : k \in 0 .. n}

InitObserved ==
    /\ combinations = None
    /\ prevCombinations = None
    /\ random = None
    /\ drawn = None
    /\ calls = <<>>
    /\ allLog = <<>>
    /\ iter = 0
    /\ draws = {}
    /\ task = [t \in Tasks |-> Idle]
    /\ appState = AppState
    /\ valA = None
    /\ valB = None
    /\ valAB = None
    /\ response = None

\* nothing has been called; no slice is handed to total_value
Init ==
    /\ InitObserved
    /\ trial = "none"
    /\ argA = <<>>
    /\ argB = <<>>

\* nothing has been called; the caller holds two arbitrary Coin slices
InitTV ==
    /\ InitObserved
    /\ trial = "none"
    /\ argA \in CoinSeqs(MaxLen)
    /\ argB \in CoinSeqs(MaxLen)

\* one of the two variety tests starts; nothing else runs
InitVariety ==
    /\ InitObserved
    /\ trial \in {"library", "endpoint"}
    /\ argA = <<>>
    /\ argB = <<>>

\* ------------------------------------------------------------------------
\* Library calls
\* ------------------------------------------------------------------------

\* generate_all_combinations whose list starts at a mask taken from the generator
GenerateAll_shuffled ==
    /\ \E i \in gen_range :
           combinations' = Some([k \in 1 .. total_combinations |->
               generate_all_combinations[((k - 1 + i) % total_combinations) + 1]])
    /\ prevCombinations' = combinations
    /\ UNCHANGED <<random, drawn, tvVars, webVars, testVars, concVars>>

GenerateAll ==
    /\ combinations' = Some(generate_all_combinations)
    /\ prevCombinations' = combinations
    /\ UNCHANGED <<random, drawn, tvVars, webVars, testVars, concVars>>

GenerateRandom ==
    /\ \E i \in gen_range :
           /\ drawn' = Some(i)
           /\ random' = Some(generate_random_combination(i))
    /\ UNCHANGED <<combinations, prevCombinations, tvVars, webVars, testVars, concVars>>

TotalValueA ==
    /\ valA' = Some(total_value(argA))
    /\ UNCHANGED <<libVars, argA, argB, valB, valAB, webVars, testVars, concVars>>

TotalValueB ==
    /\ valB' = Some(total_value(argB))
    /\ UNCHANGED <<libVars, argA, argB, valA, valAB, webVars, testVars, concVars>>

TotalValueAB ==
    /\ valAB' = Some(total_value(argA \o argB))
    /\ UNCHANGED <<libVars, argA, argB, valA, valB, webVars, testVars, concVars>>

\* ------------------------------------------------------------------------
\* HTTP requests
\* ------------------------------------------------------------------------

\* a handler that called the engine functions made answers status and body
Respond(path, status, body, made) ==
    /\ response' = Some([path |-> path, status |-> status, body |-> body])
    /\ calls' = made
    /\ UNCHANGED <<libVars, tvVars, testVars, concVars>>

\* GET /
Root ==
    /\ "/" \in Routes
    /\ Respond("/", StatusOK, RootInfo, RootCalls)
    /\ UNCHANGED allLog

\* GET /health
HealthCheck ==
    /\ "/health" \in Routes
    /\ Respond("/health", StatusOK, HealthResponse, HealthCalls)
    /\ UNCHANGED allLog

\* GET /random
GetRandomCombination ==
    /\ "/random" \in Routes
    /\ \E i \in gen_range : Respond("/random", StatusOK, RandomResponse(i), RandomCalls)
    /\ UNCHANGED allLog

\* GET /all
GetAllCombinations ==
    /\ "/all" \in Routes
    /\ Respond("/all", StatusOK, AllCombinationsResponse, AllCalls)
    /\ allLog' = Recent(allLog, AllCombinationsResponse)

\* GET of a path no route matches: the router's fallback
NotFound ==
    /\ \E path \in Paths \ Routes : Respond(path, StatusNotFound, None, <<>>)
    /\ UNCHANGED allLog

\* ------------------------------------------------------------------------
\* The variety tests
\* ------------------------------------------------------------------------

\* for _ in 0..50 of test_random_combination_produces_variety
LibraryDraws == 50

\* for _ in 0..10 of test_random_endpoint_produces_variety
EndpointDraws == 10

\* the results vector of the running test once sorted and deduplicated: the
\* distinct values pushed for the masks drawn
Results ==
    IF trial = "library"
    THEN {generate_random_combination(i) : i \in draws}
    ELSE {RandomResponse(i).coins : i \in draws}

\* one iteration of the loop of test_random_combination_produces_variety
LibraryIteration ==
    /\ trial = "library"
    /\ iter < LibraryDraws
    /\ \E i \in gen_range : draws' = draws \cup {i}
    /\ iter' = iter + 1
    /\ UNCHANGED <<libVars, tvVars, webVars, trial, concVars>>

\* one iteration of the loop of test_random_endpoint_produces_variety
EndpointIteration ==
    /\ trial = "endpoint"
    /\ iter < EndpointDraws
    /\ \E i \in gen_range : draws' = draws \cup {i}
    /\ iter' = iter + 1
    /\ UNCHANGED <<libVars, tvVars, webVars, trial, concVars>>

\* ------------------------------------------------------------------------
\* Concurrent invocations: each task runs one invocation at a time, step by
\* step, on locals of its own
\* ------------------------------------------------------------------------

\* task t goes on as next; nothing else changes
Step(t, next) ==
    /\ task' = [task EXCEPT ![t] = next]
    /\ UNCHANGED <<libVars, tvVars, webVars, testVars, appState>>

\* generate_all_combinations is entered: lib.rs:43-48
CallGenerateAll(t) ==
    /\ task[t].op = "idle"
    /\ Step(t, [Idle EXCEPT !.op = "generate_all_combinations", !.pc = "loop"])

\* an outer-loop iteration that uses and advances one counter shared by all
\* the tasks running generate_all_combinations
GenerateAllIteration_sharedCounter(t) ==
    /\ task[t].op = "generate_all_combinations"
    /\ task[t].pc = "loop"
    /\ task[t].i < total_combinations
    /\ task' = [u \in Tasks |->
           IF u = t
           THEN [task[t] EXCEPT
                    !.acc = Append(@, all_inner_loop(task[t].i, 0, <<>>)),
                    !.i = @ + 1]
           ELSE IF task[u].op = "generate_all_combinations" /\ task[u].pc = "loop"
                THEN [task[u] EXCEPT !.i = @ + 1]
                ELSE task[u]]
    /\ UNCHANGED <<libVars, tvVars, webVars, testVars, appState>>

\* one iteration of the outer loop: lib.rs:51-71
GenerateAllIteration(t) ==
    /\ task[t].op = "generate_all_combinations"
    /\ task[t].pc = "loop"
    /\ task[t].i < total_combinations
    /\ Step(t, [task[t] EXCEPT
                    !.acc = Append(@, all_inner_loop(task[t].i, 0, <<>>)),
                    !.i = @ + 1])

\* the outer loop is over, combinations is returned: lib.rs:73
GenerateAllReturn(t) ==
    /\ task[t].op = "generate_all_combinations"
    /\ task[t].pc = "loop"
    /\ task[t].i >= total_combinations
    /\ Step(t, [task[t] EXCEPT !.result = Some(task[t].acc), !.pc = "done"])

\* generate_random_combination is entered and draws its mask: lib.rs:88-94
CallGenerateRandom(t) ==
    /\ task[t].op = "idle"
    /\ \E i \in gen_range :
           Step(t, [Idle EXCEPT !.op = "generate_random_combination",
                                !.pc = "loop", !.i = i])

\* the mask is decoded and the combination returned: lib.rs:97-108
GenerateRandomReturn(t) ==
    /\ task[t].op = "generate_random_combination"
    /\ task[t].pc = "loop"
    /\ Step(t, [task[t] EXCEPT
                    !.result = Some(random_loop(task[t].i, 0, <<>>)),
                    !.pc = "done"])

\* total_value is entered with a slice: lib.rs:77
CallTotalValue(t) ==
    /\ task[t].op = "idle"
    /\ \E coins \in ConcSlices :
           Step(t, [Idle EXCEPT !.op = "total_value", !.pc = "loop",
                                !.coins = coins])

\* the iterator yields one coin and sum adds its value: lib.rs:82
TotalValueIteration(t) ==
    /\ task[t].op = "total_value"
    /\ task[t].pc = "loop"
    /\ task[t].i < Len(task[t].coins)
    /\ Step(t, [task[t] EXCEPT
                    !.sum = @ + value_in_cents(task[t].coins[task[t].i + 1]),
                    !.i = @ + 1])

\* the iterator is exhausted, the sum is returned: lib.rs:82
TotalValueReturn(t) ==
    /\ task[t].op = "total_value"
    /\ task[t].pc = "loop"
    /\ task[t].i >= Len(task[t].coins)
    /\ Step(t, [task[t] EXCEPT !.result = Some(task[t].sum), !.pc = "done"])

\* a request task enters get_random_combination and draws: web.rs:68
HandleRandom(t) ==
    /\ task[t].op = "idle"
    /\ \E i \in gen_range :
           Step(t, [Idle EXCEPT !.op = "get_random_combination",
                                !.pc = "respond", !.i = i])

\* get_random_combination builds its response: web.rs:69-76
HandleRandomRespond(t) ==
    /\ task[t].op = "get_random_combination"
    /\ task[t].pc = "respond"
    /\ Step(t, [task[t] EXCEPT
                    !.result = Some([status |-> StatusOK,
                                     body |-> RandomResponse(task[t].i)]),
                    !.pc = "done"])

\* a request task enters get_all_combinations and enumerates: web.rs:81
HandleAll(t) ==
    /\ task[t].op = "idle"
    /\ Step(t, [Idle EXCEPT !.op = "get_all_combinations", !.pc = "respond",
                             !.acc = generate_all_combinations])

\* get_all_combinations maps the list and builds its response: web.rs:83-98
HandleAllRespond(t) ==
    /\ task[t].op = "get_all_combinations"
    /\ task[t].pc = "respond"
    /\ LET details == [k \in 1 .. Len(task[t].acc) |->
                          CombinationDetail(k - 1, task[t].acc[k])]
       IN  Step(t, [task[t] EXCEPT
                       !.result = Some([status |-> StatusOK,
                                        body |-> [total_combinations |-> Len(details),
                                                  combinations |-> details]]),
                       !.pc = "done"])

\* the caller has its result; the task is free for the next invocation
Finish(t) ==
    /\ task[t].pc = "done"
    /\ Step(t, Idle)

\* ------------------------------------------------------------------------
\* Specifications
\* ------------------------------------------------------------------------

\* the engine and the router
Next ==
    \/ GenerateAll
    \/ GenerateRandom
    \/ Root
    \/ HealthCheck
    \/ GetRandomCombination
    \/ GetAllCombinations
    \/ NotFound

Spec == Init /\ [][Next]_vars

\* the library, total_value applied to the caller's slices
NextTV ==
    \/ GenerateRandom
    \/ TotalValueA
    \/ TotalValueB
    \/ TotalValueAB

SpecTV == InitTV /\ [][NextTV]_vars

\* the two variety tests
NextVariety ==
    \/ LibraryIteration
    \/ EndpointIteration

SpecVariety == InitVariety /\ [][NextVariety]_vars

\* concurrent invocations, interleaved step by step
NextConc ==
    \E t \in Tasks :
        \/ CallGenerateAll(t)
        \/ GenerateAllIteration(t)
        \/ GenerateAllReturn(t)
        \/ CallGenerateRandom(t)
        \/ GenerateRandomReturn(t)
        \/ CallTotalValue(t)
        \/ TotalValueIteration(t)
        \/ TotalValueReturn(t)
        \/ HandleRandom(t)
        \/ HandleRandomRespond(t)
        \/ HandleAll(t)
        \/ HandleAllRespond(t)
        \/ Finish(t)

SpecConc == Init /\ [][NextConc]_vars

\* ------------------------------------------------------------------------
\* Vocabulary of the properties
\* ------------------------------------------------------------------------

Range(s) == {s[k] : k \in DOMAIN s}

\* number of occurrences of coin c in s
Count(s, c) == Cardinality({k \in DOMAIN s : s[k] = c})

NoDup(s) == \A p, q \in DOMAIN s : p # q => s[p] # s[q]

\* cents of a slice, counted denomination by denomination
CentsByCount(s) ==
    1 * Count(s, "Penny") + 5 * Count(s, "Nickel")
        + 10 * Count(s, "Dime") + 25 * Count(s, "Quarter")

\* ordinal (bit position) of a denomination
OrdinalOf(c) ==
    CASE c = "Penny" -> 0
      [] c = "Nickel" -> 1
      [] c = "Dime" -> 2
      [] c = "Quarter" -> 3

\* s lists its denominations in strictly ascending ordinal
AscendingOrdinals(s) ==
    \A p, q \in DOMAIN s : p < q => OrdinalOf(s[p]) < OrdinalOf(s[q])

\* the mask whose set bits are the ordinals of the denominations of s
RECURSIVE MaskOfSet(_)
MaskOfSet(S) ==
    IF S = {}
    THEN 0
    ELSE LET c == CHOOSE x \in S : TRUE
         IN  (2 ^ OrdinalOf(c)) + MaskOfSet(S \ {c})

\* s is the combination the mask i encodes
DecodesMask(s, i) ==
    /\ Range(s) \subseteq Coin
    /\ AscendingOrdinals(s)
    /\ MaskOfSet(Range(s)) = i

\* a and b hold the same denominations the same number of times
SameMultiset(a, b) == \A c \in Coin : Count(a, c) = Count(b, c)

\* the calls of total_value made so far, as <<slice, result>> pairs
TotalValueCalls ==
    (IF IsSome(valA) THEN {<<argA, Unwrap(valA)>>} ELSE {})
    \cup (IF IsSome(valB) THEN {<<argB, Unwrap(valB)>>} ELSE {})
    \cup (IF IsSome(valAB) THEN {<<argA \o argB, Unwrap(valAB)>>} ELSE {})

\* the last response is a 200 of the handler of path
RespondedOK(path) ==
    /\ IsSome(response)
    /\ Unwrap(response).path = path
    /\ Unwrap(response).status = StatusOK

\* ------------------------------------------------------------------------
\* Properties
\* ------------------------------------------------------------------------

\* C1: generate_all_combinations returns exactly 16 combinations and the
\* combination at index i lists, in ascending ordinal, exactly the
\* denominations whose bit is set in i; index 0 is empty, 1 is [Penny],
\* 2 is [Nickel], 5 is [Penny, Dime], 15 is [Penny, Nickel, Dime, Quarter].
C1_EnumerateAllDecodesMasks ==
    IsSome(combinations) =>
        LET all == Unwrap(combinations)
        IN  /\ Len(all) = 16
            /\ \A i \in 0 .. 15 : DecodesMask(all[i + 1], i)
            /\ all[0 + 1] = <<>>
            /\ all[1 + 1] = <<"Penny">>
            /\ all[2 + 1] = <<"Nickel">>
            /\ all[5 + 1] = <<"Penny", "Dime">>
            /\ all[15 + 1] = <<"Penny", "Nickel", "Dime", "Quarter">>

C1_Witness ==
    /\ IsSome(combinations)
    /\ Unwrap(combinations)[5 + 1] = <<"Penny", "Dime">>

\* C2: the combinations at two different indices differ as sequences, and
\* index -> combination is a bijection between 0..15 and the 16 subsets of
\* the four denominations.
C2_EnumerateAllBijection ==
    IsSome(combinations) =>
        LET all == Unwrap(combinations)
        IN  /\ DOMAIN all = 1 .. 16
            /\ \A i, j \in DOMAIN all : i # j => all[i] # all[j]
            /\ \A i \in DOMAIN all : NoDup(all[i])
            /\ {Range(all[i]) : i \in DOMAIN all} = SUBSET Coin
            /\ \A i, j \in DOMAIN all : i # j => Range(all[i]) # Range(all[j])

C2_Witness ==
    /\ IsSome(combinations)
    /\ Cardinality({Unwrap(combinations)[i] : i \in DOMAIN Unwrap(combinations)}) = 16

\* C3: total_value(c) is the sum over every element of c of its cent value
\* (Penny 1, Nickel 5, Dime 10, Quarter 25): total_value([]) = 0,
\* total_value([Quarter]) = 25, total_value([Quarter, Dime, Nickel, Penny]) = 41.
C3_TotalValueIsSumOfCents ==
    \A call \in TotalValueCalls :
        /\ call[2] = CentsByCount(call[1])
        /\ call[1] = <<>> => call[2] = 0
        /\ call[1] = <<"Quarter">> => call[2] = 25
        /\ call[1] = <<"Quarter", "Dime", "Nickel", "Penny">> => call[2] = 41

C3_Witness ==
    /\ argA = <<"Quarter", "Dime">>
    /\ argB = <<"Nickel", "Penny">>
    /\ valAB = Some(41)
    /\ valA = Some(35)

\* C4 as stated: every slice total_value receives is duplicate-free.
C4_Original_NoRepeatedDenomination ==
    \A call \in TotalValueCalls : NoDup(call[1])

\* C4 as amended: total_value receives slices with a repeated denomination
\* and counts every occurrence (total_value([Nickel, Nickel]) = 10); the
\* duplicate-free sequences are the combinations generate_all_combinations
\* and generate_random_combination return.
C4_DuplicatesAcceptedGeneratedDistinct ==
    /\ \A call \in TotalValueCalls :
           /\ ~NoDup(call[1]) =>
                  call[2] = CentsByCount(call[1])
           /\ call[1] = <<"Nickel", "Nickel">> => call[2] = 10
    /\ \A i \in DOMAIN generate_all_combinations :
           NoDup(generate_all_combinations[i])
    /\ IsSome(random) => NoDup(Unwrap(random))

C4_Witness ==
    /\ argA = <<"Nickel", "Nickel">>
    /\ valA = Some(10)
    /\ IsSome(random)
    /\ Len(Unwrap(random)) = 4

\* C5: total_value counts every occurrence: total_value(a ++ b) =
\* total_value(a) + total_value(b) for any two slices, and a slice with a
\* repeated coin is accepted, total_value([Nickel, Nickel]) = 10.
C5_TotalValueAdditive ==
    /\ (IsSome(valA) /\ IsSome(valB) /\ IsSome(valAB)) =>
           Unwrap(valAB) = Unwrap(valA) + Unwrap(valB)
    /\ (IsSome(valAB) /\ argA \o argB = <<"Nickel", "Nickel">>) =>
           Unwrap(valAB) = 10

C5_Witness ==
    /\ argA = <<"Nickel">>
    /\ argB = <<"Nickel">>
    /\ valA = Some(5)
    /\ valB = Some(5)
    /\ valAB = Some(10)

\* C6 as stated: two slices with the same set of denominations have the
\* same total.
C6_Original_MembershipOnly ==
    (IsSome(valA) /\ IsSome(valB) /\ Range(argA) = Range(argB)) =>
        Unwrap(valA) = Unwrap(valB)

\* C6 as amended: total_value is order-independent: two slices that are
\* permutations of one another (the same denominations, each the same
\* number of times) have the same total; for duplicate-free slices the
\* total depends only on membership.
C6_TotalValueOrderIndependent ==
    (IsSome(valA) /\ IsSome(valB)) =>
        /\ SameMultiset(argA, argB) => Unwrap(valA) = Unwrap(valB)
        /\ (NoDup(argA) /\ NoDup(argB) /\ Range(argA) = Range(argB)) =>
               Unwrap(valA) = Unwrap(valB)

C6_Witness ==
    /\ argA = <<"Penny", "Nickel">>
    /\ argB = <<"Nickel", "Penny">>
    /\ valA = Some(6)
    /\ valB = Some(6)

\* C7: over the 16 enumerated combinations the minimum of total_value is 0,
\* the maximum is 41, and every total is in 0..41.
C7_EnumeratedValuesRange ==
    IsSome(combinations) =>
        LET all == Unwrap(combinations)
            values == {total_value(all[k]) : k \in DOMAIN all}
        IN  /\ Len(all) = 16
            /\ 0 \in values
            /\ 41 \in values
            /\ \A v \in values : 0 <= v /\ v <= 41

C7_Witness ==
    /\ IsSome(combinations)
    /\ total_value(Unwrap(combinations)[16]) = 41
    /\ total_value(Unwrap(combinations)[1]) = 0

\* C8: every call of generate_random_combination, after any earlier calls,
\* returns at most 4 coins, all among Penny, Nickel, Dime, Quarter, with a
\* total_value of at most 41.
C8_RandomCombinationValid ==
    IsSome(random) =>
        /\ Len(Unwrap(random)) <= 4
        /\ Range(Unwrap(random)) \subseteq {"Penny", "Nickel", "Dime", "Quarter"}
        /\ total_value(Unwrap(random)) <= 41

C8_Witness ==
    /\ IsSome(random)
    /\ Unwrap(random) = <<"Penny", "Nickel", "Dime", "Quarter">>
    /\ IsSome(response)

\* C9: every GET /all response has total_combinations = 16 and 16 entries;
\* the entry at position k has index k, the coins decoded from mask k in
\* ascending-bit order and the total value of those coins (0 -> 0, 1 -> 1,
\* 2 -> 5, 3 -> 6, 4 -> 10, 5 -> 11, 8 -> 25, 15 -> 41).
C9_AllResponse ==
    RespondedOK("/all") =>
        LET body == Unwrap(response).body
            entries == body.combinations
        IN  /\ body.total_combinations = 16
            /\ Len(entries) = 16
            /\ \A k \in 0 .. 15 :
                   /\ entries[k + 1].index = k
                   /\ DecodesMask(entries[k + 1].coins, k)
                   /\ entries[k + 1].value = CentsByCount(entries[k + 1].coins)
            /\ entries[0 + 1].value = 0
            /\ entries[1 + 1].value = 1
            /\ entries[2 + 1].value = 5
            /\ entries[3 + 1].value = 6
            /\ entries[4 + 1].value = 10
            /\ entries[5 + 1].value = 11
            /\ entries[8 + 1].value = 25
            /\ entries[15 + 1].value = 41

C9_Witness ==
    /\ RespondedOK("/all")
    /\ Unwrap(response).body.combinations[5 + 1].coins = <<"Penny", "Dime">>

\* C10: in every GET /random response the value field is the sum of the
\* cent values of the coins listed in the coins field of that response.
C10_RandomResponseValueMatchesCoins ==
    RespondedOK("/random") =>
        Unwrap(response).body.value = CentsByCount(Unwrap(response).body.coins)

C10_Witness ==
    /\ RespondedOK("/random")
    /\ Unwrap(response).body.coins = <<"Nickel", "Quarter">>
    /\ Unwrap(response).body.value = 30

\* the coin lists of the entries of a GET /all body
CoinLists(body) ==
    [k \in DOMAIN body.combinations |-> body.combinations[k].coins]

\* number of times the engine function op occurs in the call sequence made
Calls(made, op) == Cardinality({k \in DOMAIN made : made[k] = op})

C12_RoutesAnswered ==
    IsSome(response) =>
        LET r == Unwrap(response)
        IN  /\ r.path \in {"/", "/health", "/random", "/all"} => r.status = 200
            /\ r.path \notin {"/", "/health", "/random", "/all"} => r.status = 404
            /\ r.path = "/health" =>
                   /\ r.body.status = "healthy"
                   /\ r.body.service = "coins-api"

C12_Witness ==
    /\ IsSome(response)
    /\ Unwrap(response).path = "/invalid"
    /\ Unwrap(response).status = 404
    /\ Len(allLog) = 2

\* C15: generate_random_combination decodes the drawn mask as
\* generate_all_combinations does: for the drawn mask i in 0..15 the result
\* is generate_all_combinations()[i], each of the 16 masks can be drawn,
\* nothing outside 0..15 can, and the possible results are exactly the 16
\* enumerated combinations.
C15_RandomDecodesLikeEnumerateAll ==
    /\ IsSome(random) =>
           /\ IsSome(drawn)
           /\ Unwrap(drawn) \in 0 .. 15
           /\ Unwrap(random) = generate_all_combinations[Unwrap(drawn) + 1]
    /\ \A i \in 0 .. 15 : ENABLED (GenerateRandom /\ drawn' = Some(i))
    /\ \A i \in {-1, 16} : ~ENABLED (GenerateRandom /\ drawn' = Some(i))
    /\ {generate_random_combination(i) : i \in gen_range}
           = Range(generate_all_combinations)

C15_Witness ==
    /\ drawn = Some(10)
    /\ random = Some(<<"Nickel", "Quarter">>)
    /\ IsSome(combinations)

\* C16 as stated: the handler of every request answered 200 called exactly
\* one engine function.
C16_Original_ExactlyOneEngineCall ==
    (IsSome(response) /\ Unwrap(response).status = StatusOK) => Len(calls) = 1

\* C16 as amended: root and health_check call no engine function;
\* get_random_combination calls generate_random_combination once, then
\* total_value once; get_all_combinations calls generate_all_combinations
\* once, then total_value once per combination (16 times); each puts the
\* result in its payload and answers 200.
C16_EngineCallsPerHandler ==
    IsSome(response) =>
        LET r == Unwrap(response)
        IN  /\ r.path \in {"/", "/health"} =>
                   /\ calls = <<>>
                   /\ r.status = 200
            /\ r.path = "/random" =>
                   /\ calls = <<"generate_random_combination", "total_value">>
                   /\ r.status = 200
                   /\ r.body.value = CentsByCount(r.body.coins)
            /\ r.path = "/all" =>
                   /\ Len(calls) = 17
                   /\ calls[1] = "generate_all_combinations"
                   /\ Calls(calls, "generate_all_combinations") = 1
                   /\ Calls(calls, "total_value") = 16
                   /\ r.status = 200
                   /\ r.body.total_combinations = 16

C16_Witness ==
    /\ RespondedOK("/all")
    /\ Len(calls) = 17
    /\ Calls(calls, "total_value") = 16

\* C17: the total value identifies the combination: the 16 enumerated
\* combinations have 16 pairwise distinct totals, so the value of a /random
\* or /all payload determines its coins list.
C17_TotalIdentifiesCombination ==
    /\ IsSome(combinations) =>
           LET all == Unwrap(combinations)
           IN  /\ \A i, j \in DOMAIN all :
                      i # j => total_value(all[i]) # total_value(all[j])
               /\ Cardinality({total_value(all[i]) : i \in DOMAIN all}) = 16
    /\ RespondedOK("/all") =>
           LET entries == Unwrap(response).body.combinations
           IN  \A i, j \in DOMAIN entries :
                   entries[i].value = entries[j].value =>
                       entries[i].coins = entries[j].coins
    /\ RespondedOK("/random") =>
           \A c \in Range(generate_all_combinations) :
               total_value(c) = Unwrap(response).body.value =>
                   c = Unwrap(response).body.coins

C17_Witness ==
    /\ IsSome(combinations)
    /\ RespondedOK("/random")
    /\ Unwrap(response).body.value = 15
    /\ Unwrap(response).body.coins = <<"Nickel", "Dime">>

\* the loop of the running variety test has made all its iterations
TrialDone ==
    \/ trial = "library" /\ iter = 50
    \/ trial = "endpoint" /\ iter = 10

ResultAlone(t) ==
    CASE task[t].op = "generate_all_combinations" ->
             generate_all_combinations
      [] task[t].op = "total_value" ->
             total_value(task[t].coins)
      [] task[t].op = "generate_random_combination" ->
             generate_random_combination(task[t].i)
      [] task[t].op = "get_random_combination" ->
             [status |-> 200, body |-> RandomResponse(task[t].i)]
      [] task[t].op = "get_all_combinations" ->
             [status |-> 200, body |-> AllCombinationsResponse]

\* C13: the core operations share no mutable state: in every interleaving
\* of concurrent invocations each generate_all_combinations and total_value
\* returns what it returns when run alone, each generate_random_combination
\* is an independent draw that earlier and concurrent calls do not
\* constrain, and the AppState is never modified.
C13_ConcurrentInvocationsIndependent ==
    /\ \A t \in Tasks :
           task[t].pc = "done" => task[t].result = Some(ResultAlone(t))
    /\ \A t \in Tasks :
           task[t].op = "idle" =>
               \A i \in 0 .. 15 :
                   /\ ENABLED (CallGenerateRandom(t) /\ task'[t].i = i)
                   /\ ENABLED (HandleRandom(t) /\ task'[t].i = i)
    /\ appState = <<>>

C13_Witness ==
    /\ task[1].op = "generate_all_combinations"
    /\ task[1].pc = "done"
    /\ task[2].op = "generate_all_combinations"
    /\ task[2].pc = "loop"
    /\ task[2].i = 7

====
